---- MODULE Spec2Model ----
(***************************************************************************)
(* A model of the PaymentWorkflow of payloops/processor-stripe             *)
(* (src/src/workflows/payment.ts) together with the activities it calls:   *)
(* stripe.processPayment -> StripeProcessor.createPayment (src/src/index.ts)*)
(* and backend.updateOrderStatus (src/src/functions/index.ts).             *)
(*                                                                         *)
(* One run of the workflow is modelled.  The workflow code runs on a       *)
(* single logical thread and gives up control only at its awaits, so each  *)
(* action is one await resuming: one attempt of an activity, or the        *)
(* resolution of condition().  Signals are delivered between awaits.       *)
(* An activity attempt may fail; the proxy's retry policy re-runs it up to *)
(* maximumAttempts times and then rejects the awaited promise, which the   *)
(* workflow's try/catch turns into the workflow_error path.                *)
(*                                                                         *)
(* A second specification, WSpec, models one run of                        *)
(* WebhookDeliveryWorkflow (src/src/workflows/webhook.ts) with the         *)
(* deliverWebhook activity (src/src/functions/index.ts).                   *)
(* BackoffSpec applies the two backoff computations to any attempt index,  *)
(* and EngineSpec lets two invocations of deliverWebhook interleave.       *)
(***************************************************************************)
EXTENDS Integers, Sequences, FiniteSets, TLC

VARIABLES
    pc,               \* the await the workflow function is suspended at
    att,              \* attempt number of the activity in flight (retry policy)
    paymentCompleted, \* payment.ts:45
    paymentResult,    \* payment.ts:46
    cancelled,        \* payment.ts:47
    result,           \* payment.ts:82  the gateway outcome
    completed,        \* payment.ts:100 what condition() resolved to
    finalResult,      \* payment.ts:113
    order,            \* the orders row of input.orderId
    transactions,     \* the transactions rows inserted for the order
    returned,         \* the value the workflow function returned
    retSite,          \* history: which return statement produced it
    calls,            \* history: the updateOrderStatus calls the workflow made
    gatewayExecs,     \* history: executions of the processPayment activity
    completions,      \* history: completion signals handled before the wait resolved
    earlySignal,      \* history: a signal was handled before the workflow reached the wait
    nSignals,         \* history: signals delivered so far
    lateSignals,      \* history: signals delivered after the wait resolved
    resolvedBy        \* history: which branch the wait resolved into

\* One run of WebhookDeliveryWorkflow (src/src/workflows/webhook.ts) and the
\* webhook_events row it works on.
VARIABLES
    wpc,              \* the await the webhook workflow is suspended at
    watt,             \* attempt number of the activity in flight (retry policy)
    secret,           \* webhook.ts:42
    attempt,          \* webhook.ts:44
    event,            \* the webhook_events row of input.webhookEventId
    wResult,          \* the value the webhook workflow returned
    initialAttempts,  \* history: event.attempts when the run started
    webhookUrl,       \* input.webhookUrl
    httpCalls,        \* history: calls of fetch made by the run
    lastRequest,      \* history: the request handed to the latest call of fetch
    lastHttp,         \* history: how the latest call of fetch ended
    any2xx,           \* history: some request was answered 2xx
    dbFaults,         \* history: a database statement or an activity execution failed
    sleeps            \* history: the durations the workflow slept

wvars == << wpc, watt, secret, attempt, event, wResult, initialAttempts, webhookUrl,
            httpCalls, lastRequest, lastHttp, any2xx, dbFaults, sleeps >>

\* Invocations of deliverWebhook for one webhookEventId that are not ordered
\* by one workflow run (src/src/functions/index.ts:178-257).
VARIABLES
    inv,              \* per invocation: where it stands, the count it read, how fetch ended
    nCompleted,       \* history: invocations that ran to their return
    overlapped        \* history: an invocation started while another was running

evars == << inv, nCompleted, overlapped >>

pvars == << pc, att, paymentCompleted, paymentResult, cancelled, result, completed,
            finalResult, order, transactions, returned, retSite, calls,
            gatewayExecs, completions, earlySignal, nSignals, lateSignals, resolvedBy >>

vars == << pvars, wvars, evars >>

\* An absent optional field (undefined / null in the source).
NULL == "none"

\* Bound of the model: how many signals are delivered to one run.
MaxSignals == 3

\* retry.maximumAttempts of the backend proxy and of the stripe proxy.
BackendMaxAttempts == 3
StripeMaxAttempts == 5

\* Processor transaction references a completion signal may carry.
SignalTxIds == {NULL, "ch_A", "ch_B"}

\* The payload of completePaymentSignal.
CompletionSignals == [success : BOOLEAN, processorTransactionId : SignalTxIds]

\* A PaymentResult variable that holds null, or was not assigned yet.
NoResult == [absent |-> TRUE]

\* A PaymentResult value; errorMessage is carried by errorCode.
PaymentResult(success, status, poid, ptid, errorCode) ==
    [success |-> success, status |-> status, processorOrderId |-> poid,
     processorTransactionId |-> ptid, errorCode |-> errorCode]

(***************************************************************************)
(* StripeProcessor.createPayment, src/src/index.ts:13-101.                 *)
(* The argument is what stripe.paymentIntents.create did: the status of    *)
(* the PaymentIntent it returned, or the kind of error it threw.           *)
(***************************************************************************)
StripeOutcomes == {"requires_action", "requires_confirmation", "succeeded",
                   "processing", "requires_payment_method", "canceled",
                   "StripeError", "Error"}

\* What an awaited call evaluates to when it throws.
THROWN == [thrown |-> TRUE]

createPayment(outcome) ==
    IF outcome = "requires_action" \/ outcome = "requires_confirmation"
    THEN PaymentResult(FALSE, "requires_action", "pi_1", NULL, NULL)
    ELSE IF outcome = "succeeded"
    THEN PaymentResult(TRUE, "captured", "pi_1", "ch_1", NULL)
    ELSE IF outcome = "processing"
    THEN PaymentResult(FALSE, "pending", "pi_1", NULL, NULL)
    ELSE IF outcome = "requires_payment_method"
    THEN PaymentResult(FALSE, "pending", "pi_1", NULL, NULL)
    ELSE IF outcome = "StripeError"
    THEN PaymentResult(FALSE, "failed", NULL, NULL, "stripe_error")
    ELSE IF outcome = "Error"
    THEN THROWN
    ELSE PaymentResult(FALSE, "failed", "pi_1", NULL, outcome)

\* A variant of SignalResult that reports captured whatever the success flag.
SignalResultAlwaysCaptured(sig) ==
    PaymentResult(sig.success, "captured", NULL, sig.processorTransactionId, NULL)

(***************************************************************************)
(* The completePaymentSignal handler's value, payment.ts:50-57.            *)
(***************************************************************************)
SignalResult(sig) ==
    PaymentResult(sig.success, IF sig.success THEN "captured" ELSE "failed",
                  NULL, sig.processorTransactionId, NULL)

(***************************************************************************)
(* The literal results of the return statements of PaymentWorkflow.        *)
(***************************************************************************)
NoConfigResult == PaymentResult(FALSE, "failed", NULL, NULL, "no_processor_config")
CancelledResult == PaymentResult(FALSE, "failed", NULL, NULL, "cancelled")
\* A variant of TimeoutResult that looks at the signal state again when returning.
TimeoutResultRereadsSignal ==
    IF paymentResult # NoResult THEN paymentResult
    ELSE PaymentResult(FALSE, "failed", NULL, NULL, "timeout")

TimeoutResult == PaymentResult(FALSE, "failed", NULL, NULL, "timeout")
WorkflowErrorResult == PaymentResult(FALSE, "failed", NULL, NULL, "workflow_error")

(***************************************************************************)
(* The three ifs after condition(), payment.ts:102-122: the await the      *)
(* workflow goes to next.  "resultWrite" is the fall-through to line 125.  *)
(***************************************************************************)
WaitBranch(isCompleted, isCancelled, isPaymentCompleted, sigResult) ==
    IF isCancelled THEN "cancelWrite"
    ELSE IF ~isCompleted \/ ~isPaymentCompleted THEN "timeoutWrite"
    ELSE IF sigResult # NoResult THEN "signalWrite"
    ELSE "resultWrite"

(***************************************************************************)
(* updateOrderStatus, src/src/functions/index.ts:40-75.  An attempt of the *)
(* activity ends in one of three ways: it runs to the end ("ok"), it       *)
(* throws at the UPDATE so that nothing is applied ("failBeforeUpdate"),   *)
(* or it fails after the UPDATE was applied, at the SELECT / INSERT or by  *)
(* the activity's timeout ("failAfterUpdate").                             *)
(***************************************************************************)
AttemptOutcomes == {"ok", "failBeforeUpdate", "failAfterUpdate"}

\* A variant of UpdateOrdersRow that writes the processorOrderId it is given,
\* also when it is given none.
UpdateOrdersRowWritesReference(row, status, poid) ==
    [row EXCEPT !.status = status, !.processorOrderId = poid]

\* db.update(orders).set({status, processorOrderId: processorOrderId || undefined})
UpdateOrdersRow(row, status, poid) ==
    [row EXCEPT !.status = status,
                !.processorOrderId = IF poid # NULL THEN poid ELSE @]

\* db.insert(transactions).values({...})
TransactionRow(status, ptid) ==
    [type |-> IF status = "captured" THEN "capture" ELSE "authorization",
     status |-> IF status = "failed" THEN "failed" ELSE "success",
     processorTransactionId |-> ptid]

OrderAfter(row, status, poid, outcome) ==
    IF outcome = "failBeforeUpdate" THEN row ELSE UpdateOrdersRow(row, status, poid)

TransactionsAfter(txs, status, ptid, outcome) ==
    IF outcome = "ok" /\ ptid # NULL THEN Append(txs, TransactionRow(status, ptid))
    ELSE txs

(***************************************************************************)
(* The state when PaymentWorkflow starts, payment.ts:44-62: the flags are  *)
(* initialised and both signal handlers are installed before the first     *)
(* await.  The order exists and has not been processed.                    *)
(***************************************************************************)
PaymentInit ==
    /\ pc = "getConfig"
    /\ att = 1
    /\ paymentCompleted = FALSE
    /\ paymentResult = NoResult
    /\ cancelled = FALSE
    /\ result = NoResult
    /\ completed = FALSE
    /\ finalResult = NoResult
    /\ order = [status |-> "pending", processorOrderId |-> NULL]
    /\ transactions = << >>
    /\ returned = NoResult
    /\ retSite = NULL
    /\ calls = << >>
    /\ gatewayExecs = 0
    /\ completions = << >>
    /\ earlySignal = FALSE
    /\ nSignals = 0
    /\ lateSignals = 0
    /\ resolvedBy = NULL

\* An optional number or date: absent, or one value.
None == << >>
Some(x) == << x >>

\* fetch was not called yet.
NoHttp == [status |-> 0, message |-> NULL]
NoRequest == [url |-> NULL, method |-> NULL, headers |-> {}, body |-> NULL]

\* The workers that may execute deliverWebhook at the same time.
Invocations == {1, 2}

\* No invocation of deliverWebhook outside a workflow run.
EngineIdle ==
    /\ inv = [i \in Invocations |-> [at |-> "idle", attempts |-> 0, h |-> NoHttp]]
    /\ nCompleted = 0
    /\ overlapped = FALSE

\* No WebhookDeliveryWorkflow run exists.
WebhookIdle ==
    /\ wpc = "idle"
    /\ watt = 1
    /\ secret = NULL
    /\ attempt = 0
    /\ event = [status |-> "pending", attempts |-> 0, deliveredAt |-> None,
                nextRetryAt |-> None]
    /\ wResult = NoResult
    /\ initialAttempts = 0
    /\ webhookUrl = NULL
    /\ httpCalls = 0
    /\ lastRequest = NoRequest
    /\ lastHttp = NoHttp
    /\ any2xx = FALSE
    /\ dbFaults = FALSE
    /\ sleeps = << >>

Init == PaymentInit /\ WebhookIdle /\ EngineIdle

\* The workflow function has not returned or thrown: signals are still delivered.
Running == pc \notin {"done", "faulted"}

\* The workflow is at one of the awaits that precede the wait
\* (payment.ts:66, 82, 92).
BeforeWait == pc \in {"getConfig", "processPayment", "raWrite"}

\* A variant of CompletePayment whose handler only takes effect while the
\* workflow is blocked in the wait: a signal handled earlier is dropped.
CompletePaymentOnlyWhileWaiting ==
    \E sig \in CompletionSignals :
        /\ Running
        /\ nSignals < MaxSignals
        /\ paymentCompleted' = (paymentCompleted \/ ~BeforeWait)
        /\ paymentResult' = IF BeforeWait THEN paymentResult ELSE SignalResult(sig)
        /\ nSignals' = nSignals + 1
        /\ completions' = IF resolvedBy = NULL THEN Append(completions, sig) ELSE completions
        /\ earlySignal' = (earlySignal \/ BeforeWait)
        /\ lateSignals' = IF resolvedBy = NULL THEN lateSignals ELSE lateSignals + 1
        /\ UNCHANGED << wvars, evars, pc, att, cancelled, result, completed, finalResult, order,
                        transactions, returned, retSite, calls, gatewayExecs, resolvedBy >>

(***************************************************************************)
(* setHandler(completePaymentSignal, ...), payment.ts:50-57.               *)
(***************************************************************************)
CompletePayment ==
    \E sig \in CompletionSignals :
        /\ Running
        /\ nSignals < MaxSignals
        /\ paymentCompleted' = TRUE
        /\ paymentResult' = SignalResult(sig)
        /\ nSignals' = nSignals + 1
        /\ completions' = IF resolvedBy = NULL THEN Append(completions, sig) ELSE completions
        /\ earlySignal' = (earlySignal \/ BeforeWait)
        /\ lateSignals' = IF resolvedBy = NULL THEN lateSignals ELSE lateSignals + 1
        /\ UNCHANGED << wvars, evars, pc, att, cancelled, result, completed, finalResult, order,
                        transactions, returned, retSite, calls, gatewayExecs, resolvedBy >>

(***************************************************************************)
(* setHandler(cancelPaymentSignal, ...), payment.ts:60-62.                 *)
(***************************************************************************)
CancelPayment ==
    /\ Running
    /\ nSignals < MaxSignals
    /\ cancelled' = TRUE
    /\ earlySignal' = (earlySignal \/ BeforeWait)
    /\ nSignals' = nSignals + 1
    /\ lateSignals' = IF resolvedBy = NULL THEN lateSignals ELSE lateSignals + 1
    /\ UNCHANGED << wvars, evars, pc, att, paymentCompleted, paymentResult, result, completed,
                    finalResult, order, transactions, returned, retSite, calls,
                    gatewayExecs, completions, resolvedBy >>

(***************************************************************************)
(* One attempt of backend.getProcessorConfig, payment.ts:66-68.  It yields *)
(* a config, null, or throws; a throw is retried by the backend proxy's    *)
(* policy and, exhausted, lands in the catch block.                        *)
(***************************************************************************)
GetProcessorConfig ==
    /\ pc = "getConfig"
    /\ \E r \in {"config", "null", "throw"} :
        IF r = "throw"
        THEN IF att < BackendMaxAttempts
             THEN att' = att + 1 /\ pc' = pc
             ELSE att' = 1 /\ pc' = "catchWrite"
        ELSE att' = 1 /\ pc' = (IF r = "null" THEN "noConfigWrite" ELSE "processPayment")
    /\ UNCHANGED << wvars, evars, paymentCompleted, paymentResult, cancelled, result, completed,
                    finalResult, order, transactions, returned, retSite, calls,
                    gatewayExecs, completions, earlySignal, nSignals, lateSignals, resolvedBy >>

(***************************************************************************)
(* One attempt of stripe.processPayment, payment.ts:82-91 with the stripe  *)
(* proxy's retry policy, payment.ts:7-15.  The activity is                 *)
(* StripeProcessor.createPayment; an error it rethrows fails the attempt.  *)
(***************************************************************************)
ProcessPayment ==
    /\ pc = "processPayment"
    /\ gatewayExecs' = gatewayExecs + 1
    /\ \E o \in StripeOutcomes :
        LET r == createPayment(o) IN
        IF r = THROWN
        THEN /\ UNCHANGED result
             /\ IF att < StripeMaxAttempts
                THEN att' = att + 1 /\ pc' = pc
                ELSE att' = 1 /\ pc' = "catchWrite"
        ELSE /\ result' = r
             /\ att' = 1
             /\ pc' = (IF r.status = "requires_action" THEN "raWrite" ELSE "resultWrite")
    /\ UNCHANGED << wvars, evars, paymentCompleted, paymentResult, cancelled, completed,
                    finalResult, order, transactions, returned, retSite, calls,
                    completions, earlySignal, nSignals, lateSignals, resolvedBy >>

(***************************************************************************)
(* await backend.updateOrderStatus({status, processorOrderId,              *)
(* processorTransactionId}) at the call site `site`, one attempt of it.    *)
(* When the attempt runs to the end the workflow goes on to okPc, and if   *)
(* that is "done" it returns okRet.  A failed attempt is retried by the    *)
(* backend proxy's policy (payment.ts:18-27); when the attempts are used   *)
(* up the await throws: inside the try block into the catch block          *)
(* (payment.ts:133), inside the catch block out of the workflow function.  *)
(***************************************************************************)
Persist(site, status, poid, ptid, okPc, okRet) ==
    \E o \in AttemptOutcomes :
        /\ order' = OrderAfter(order, status, poid, o)
        /\ transactions' = TransactionsAfter(transactions, status, ptid, o)
        /\ IF o = "ok"
           THEN /\ calls' = Append(calls, [site |-> site, status |-> status,
                                           processorOrderId |-> poid,
                                           processorTransactionId |-> ptid, ok |-> TRUE])
                /\ att' = 1
                /\ pc' = okPc
                /\ returned' = IF okPc = "done" THEN okRet ELSE returned
                /\ retSite' = IF okPc = "done" THEN site ELSE retSite
           ELSE IF att < BackendMaxAttempts
           THEN /\ att' = att + 1
                /\ UNCHANGED << pc, calls, returned, retSite >>
           ELSE /\ calls' = Append(calls, [site |-> site, status |-> status,
                                           processorOrderId |-> poid,
                                           processorTransactionId |-> ptid, ok |-> FALSE])
                /\ att' = 1
                /\ pc' = IF site = "catchWrite" THEN "faulted" ELSE "catchWrite"
                /\ UNCHANGED << returned, retSite >>
        /\ UNCHANGED << wvars, evars,
                        paymentCompleted, paymentResult, cancelled, result, completed,
                        finalResult, gatewayExecs, completions, earlySignal, nSignals, lateSignals,
                        resolvedBy >>

\* payment.ts:68-79
NoConfigWrite ==
    /\ pc = "noConfigWrite"
    /\ Persist("noConfigWrite", "failed", NULL, NULL, "done", NoConfigResult)

\* payment.ts:91-96
RequiresActionWrite ==
    /\ pc = "raWrite"
    /\ Persist("raWrite", "requires_action", result.processorOrderId, NULL, "wait", NoResult)

(***************************************************************************)
(* await condition(() => paymentCompleted || cancelled, timeout),          *)
(* payment.ts:98-122.  The condition is evaluated when the wait is entered *)
(* and after the signals of each workflow task; once it is true the wait   *)
(* resumes with true.  The timer wins only while the condition is false.   *)
(* The code that follows runs without an await up to the next              *)
(* updateOrderStatus call, so the branch is taken in the same step.        *)
(***************************************************************************)
Resume(isCompleted) ==
    LET b == WaitBranch(isCompleted, cancelled, paymentCompleted, paymentResult) IN
    /\ completed' = isCompleted
    /\ pc' = b
    /\ resolvedBy' = b
    /\ finalResult' = IF b = "signalWrite" THEN paymentResult ELSE finalResult
    /\ UNCHANGED << wvars, evars, att, paymentCompleted, paymentResult, cancelled, result, order,
                    transactions, returned, retSite, calls, gatewayExecs, completions, earlySignal,
                    nSignals, lateSignals >>

ConditionResolves ==
    /\ pc = "wait"
    /\ (paymentCompleted \/ cancelled)
    /\ Resume(TRUE)

TimeoutFires ==
    /\ pc = "wait"
    /\ ~(paymentCompleted \/ cancelled)
    /\ Resume(FALSE)

\* payment.ts:102-105
\* A variant of CancelWrite that persists the status of the returned result.
CancelWritePersistsFailed ==
    /\ pc = "cancelWrite"
    /\ Persist("cancelWrite", "failed", NULL, NULL, "done", CancelledResult)

CancelWrite ==
    /\ pc = "cancelWrite"
    /\ Persist("cancelWrite", "cancelled", NULL, NULL, "done", CancelledResult)

\* payment.ts:107-110
TimeoutWrite ==
    /\ pc = "timeoutWrite"
    /\ Persist("timeoutWrite", "failed", NULL, NULL, "done", TimeoutResult)

\* payment.ts:112-121
SignalWrite ==
    /\ pc = "signalWrite"
    /\ Persist("signalWrite", finalResult.status, result.processorOrderId,
               finalResult.processorTransactionId, "done", finalResult)

\* payment.ts:124-132
ResultWrite ==
    /\ pc = "resultWrite"
    /\ Persist("resultWrite", result.status, result.processorOrderId,
               result.processorTransactionId, "done", result)

\* A variant of CatchWrite that returns workflow_error without the write.
CatchReturnsWithoutWrite ==
    /\ pc = "catchWrite"
    /\ pc' = "done"
    /\ returned' = WorkflowErrorResult
    /\ retSite' = "catchWrite"
    /\ UNCHANGED << wvars, evars,
                    att, paymentCompleted, paymentResult, cancelled, result, completed,
                    finalResult, order, transactions, calls, gatewayExecs, completions, earlySignal,
                    nSignals, lateSignals, resolvedBy >>

\* payment.ts:133-143
CatchWrite ==
    /\ pc = "catchWrite"
    /\ Persist("catchWrite", "failed", NULL, NULL, "done", WorkflowErrorResult)

Next ==
    \/ CompletePayment
    \/ CancelPayment
    \/ GetProcessorConfig
    \/ ProcessPayment
    \/ NoConfigWrite
    \/ RequiresActionWrite
    \/ ConditionResolves
    \/ TimeoutFires
    \/ CancelWrite
    \/ TimeoutWrite
    \/ SignalWrite
    \/ ResultWrite
    \/ CatchWrite

Spec == Init /\ [][Next]_vars

(***************************************************************************)
(*            WebhookDeliveryWorkflow, src/src/workflows/webhook.ts        *)
(*                                                                         *)
(* One run is modelled, with the deliverWebhook activity it calls          *)
(* (src/src/functions/index.ts:178-257).  An action is one execution of an *)
(* activity, or the end of a sleep.  The workflow has no try/catch: an     *)
(* activity whose retry policy is exhausted fails the run.  Dates are      *)
(* kept as offsets from the time of the attempt that wrote them.           *)
(***************************************************************************)

\* Bound of the model: the attempts already counted on the record when the
\* run starts.
MaxInitialAttempts == 2

\* retry.maximumAttempts of the backend proxy, webhook.ts:12.
WebhookBackendMaxAttempts == 3

\* webhook.ts:31-38; TLA+ sequences are indexed from 1.
MAX_ATTEMPTS == 5
RETRY_DELAYS == << 60 * 1000, 5 * 60 * 1000, 30 * 60 * 1000, 2 * 60 * 60 * 1000,
                   24 * 60 * 60 * 1000 >>

\* A variant of WorkflowDelay that indexes RETRY_DELAYS by attempt, not by
\* attempt - 1.
WorkflowDelayOffByOne(n) ==
    IF n + 1 \in 1..Len(RETRY_DELAYS) /\ RETRY_DELAYS[n + 1] # 0
    THEN RETRY_DELAYS[n + 1]
    ELSE RETRY_DELAYS[Len(RETRY_DELAYS)]

\* webhook.ts:73  RETRY_DELAYS[attempt - 1] || RETRY_DELAYS[RETRY_DELAYS.length - 1]
WorkflowDelay(n) ==
    IF n \in 1..Len(RETRY_DELAYS) /\ RETRY_DELAYS[n] # 0
    THEN RETRY_DELAYS[n]
    ELSE RETRY_DELAYS[Len(RETRY_DELAYS)]

\* functions/index.ts:215-216
baseDelay == 60 * 1000
maxDelay == 24 * 60 * 60 * 1000

Min(a, b) == IF a <= b THEN a ELSE b

\* functions/index.ts:217  Math.min(baseDelay * Math.pow(2, attempts - 1), maxDelay)
\* for attempts >= 1, computed by doubling under the cap so that no
\* intermediate value leaves the range of the model's integers.
RECURSIVE delay(_)
delay(attempts) ==
    IF attempts <= 1
    THEN Min(baseDelay, maxDelay)
    ELSE Min(2 * delay(attempts - 1), maxDelay)

\* What fetch() does, functions/index.ts:207-212: it resolves with a response
\* that has a status, or it rejects with an error that has a message,
\* possibly an empty one: a transport failure, the expiry of
\* AbortSignal.timeout(30000), or a URL that does not parse.
Response(status) == [status |-> status, message |-> NULL]
Rejected(message) == [status |-> 0, message |-> message]
TransportError == Rejected("fetch failed")
DeadlineExpired == Rejected("The operation was aborted due to timeout")
InvalidUrl == Rejected("Failed to parse URL")
HttpOutcomes ==
    {Response(200), Response(500), TransportError, DeadlineExpired, Rejected("")}

\* input.webhookUrl: a URL that parses and a string that does not.
WebhookUrls == {"https://merchant.example/hook", "not a url"}
ParsesAsUrl(url) == url = "https://merchant.example/hook"

\* The ways a call of fetch on url can end.
FetchOutcomes(url) == IF ParsesAsUrl(url) THEN HttpOutcomes ELSE {InvalidUrl}

\* input.webhookEventId and input.payload.
WebhookEventId == "evt_1"
Payload == [type |-> "payment.captured"]

\* JSON.stringify(payload), functions/index.ts:193
Stringify(p) == "{\"type\":\"" \o p.type \o "\"}"

\* Date.now(): the clock moves on with every call of fetch.
DateNow(n) == 1000 + n

\* crypto.createHmac('sha256', key).update(message).digest('hex'),
\* functions/index.ts:203: a value that names its key and its message.
Hmac(key, message) == "hmac-sha256(" \o key \o "," \o message \o ")"

\* A variant of SignaturePayload that leaves the timestamp out.
SignaturePayloadBodyOnly(timestamp, body) ==
    body

\* `${timestamp}.${body}`, functions/index.ts:202
SignaturePayload(timestamp, body) ==
    timestamp \o "." \o body

\* The request deliverWebhook hands to fetch, functions/index.ts:193-212.
Request(webhookUrl_, webhookSecret, now) ==
    LET body == Stringify(Payload)
        timestamp == ToString(now)
    IN  [url |-> webhookUrl_,
         method |-> "POST",
         headers |->
            {<< "Content-Type", "application/json" >>,
             << "X-Loop-Event-Id", WebhookEventId >>,
             << "X-Loop-Timestamp", timestamp >>}
            \cup (IF webhookSecret \notin {NULL, ""}
                  THEN {<< "X-Loop-Signature",
                           "v1=" \o Hmac(webhookSecret, SignaturePayload(timestamp, body)) >>}
                  ELSE {}),
         body |-> body]

IsResponse(h) == h.status # 0

\* response.ok
ok(h) == h.status \in 200..299

\* `HTTP ${response.status}`, functions/index.ts:235
HttpMessage(status) ==
    CASE status = 200 -> "HTTP 200"
      [] status = 500 -> "HTTP 500"

\* The message of a failed database statement.
DbErrorMessage == "db error"

\* How one execution of the activity goes, besides the request itself:
\*   ok              every statement succeeds and the result reaches the workflow
\*   selectFails     the SELECT of line 189 throws, before the request
\*   tryUpdateFails  the UPDATE of lines 219-228 throws and the one of the
\*                   catch block succeeds
\*   updateFails     every UPDATE throws
\*   resultLost      every statement succeeds and then the execution is
\*                   reported failed (timed out, or its worker stopped)
DbOutcomes == {"ok", "selectFails", "tryUpdateFails", "updateFails", "resultLost"}

\* functions/index.ts:219-228.  drizzle leaves out a key whose value is
\* undefined: the column keeps its value.
TryUpdate(row, h, attempts) ==
    [row EXCEPT !.status = IF ok(h) THEN "delivered" ELSE "pending",
                !.attempts = attempts,
                !.deliveredAt = IF ok(h) THEN Some(0) ELSE @,
                !.nextRetryAt = IF ok(h) THEN @ ELSE Some(delay(attempts))]

\* functions/index.ts:243-251
CatchUpdate(row, attempts) ==
    [row EXCEPT !.status = IF attempts >= 5 THEN "failed" ELSE "pending",
                !.attempts = attempts,
                !.nextRetryAt = IF attempts >= 5 THEN @ ELSE Some(delay(attempts))]

WebhookDeliveryResult(success, statusCode, attempts, deliveredAt, errorMessage) ==
    [success |-> success, statusCode |-> statusCode, attempts |-> attempts,
     deliveredAt |-> deliveredAt, errorMessage |-> errorMessage]

\* functions/index.ts:230-236
TryResult(h, attempts) ==
    WebhookDeliveryResult(ok(h), Some(h.status), attempts,
                          IF ok(h) THEN Some(0) ELSE None,
                          IF ok(h) THEN NULL ELSE HttpMessage(h.status))

\* functions/index.ts:253
CatchResult(attempts, errorMessage) ==
    WebhookDeliveryResult(FALSE, None, attempts, None, errorMessage)

\* The catch block is entered, functions/index.ts:237: fetch rejected, or the
\* UPDATE inside the try block threw.
EntersCatch(h, db) == ~IsResponse(h) \/ db \in {"tryUpdateFails", "updateFails"}

\* error.message, functions/index.ts:238
CaughtMessage(h) == IF IsResponse(h) THEN DbErrorMessage ELSE h.message

\* The row after one execution of deliverWebhook, functions/index.ts:189-254.
EventAfter(row, h, db) ==
    LET attempts == row.attempts + 1 IN
    CASE db \in {"selectFails", "updateFails"} -> row
      [] EntersCatch(h, db) -> CatchUpdate(row, attempts)
      [] OTHER -> TryUpdate(row, h, attempts)

\* The value one execution of deliverWebhook returns, functions/index.ts:230-253.
DeliveryResult(row, h, db) ==
    LET attempts == row.attempts + 1 IN
    IF EntersCatch(h, db)
    THEN CatchResult(attempts, CaughtMessage(h))
    ELSE TryResult(h, attempts)

\* A falsy errorMessage, webhook.ts:68
Falsy(m) == m \in {NULL, ""}

\* webhook.ts:65-69
ExhaustedResult(n, r) ==
    WebhookDeliveryResult(FALSE, None, n, None,
                          IF Falsy(r.errorMessage) THEN "Max attempts reached"
                          ELSE r.errorMessage)

(***************************************************************************)
(* The state when a WebhookDeliveryWorkflow run starts.  The record exists *)
(* and is pending; earlier attempts that failed may be counted on it, and  *)
(* then it carries the retry time the last of them scheduled.              *)
(***************************************************************************)
WInit ==
    /\ PaymentInit
    /\ wpc = "getSecret"
    /\ watt = 1
    /\ secret = NULL
    /\ attempt = 0
    /\ EngineIdle
    /\ initialAttempts \in 0..MaxInitialAttempts
    /\ webhookUrl \in WebhookUrls
    /\ lastRequest = NoRequest
    /\ event = [status |-> "pending", attempts |-> initialAttempts,
                deliveredAt |-> None,
                nextRetryAt |-> IF initialAttempts = 0 THEN None
                                ELSE Some(delay(initialAttempts))]
    /\ wResult = NoResult
    /\ httpCalls = 0
    /\ lastHttp = NoHttp
    /\ any2xx = FALSE
    /\ dbFaults = FALSE
    /\ sleeps = << >>

\* An execution of the activity in flight failed: the retry policy runs it
\* again, or, exhausted, rejects the await and the run fails
\* (webhook.ts:5-14; the workflow catches nothing).
ActivityFails ==
    /\ dbFaults' = TRUE
    /\ IF watt < WebhookBackendMaxAttempts
       THEN watt' = watt + 1 /\ wpc' = wpc
       ELSE watt' = 1 /\ wpc' = "faulted"

\* webhook.ts:42-48: the secret is resolved and the loop is entered.
GetMerchantWebhookUrl ==
    /\ wpc = "getSecret"
    /\ \E webhookSecret \in {NULL, "", "whsec"} :
        \* merchant[0]?.webhookSecret || null, functions/index.ts:266
        /\ secret' = IF webhookSecret \in {NULL, ""} THEN NULL ELSE webhookSecret
        /\ attempt' = attempt + 1
        /\ wpc' = "deliver"
        /\ watt' = 1
    /\ UNCHANGED << pvars, evars, event, wResult, initialAttempts, webhookUrl, httpCalls,
                    lastRequest, lastHttp, any2xx, dbFaults, sleeps >>

\* An execution of getMerchantWebhookUrl throws.
GetMerchantWebhookUrlFails ==
    /\ wpc = "getSecret"
    /\ ActivityFails
    /\ UNCHANGED << pvars, evars, secret, attempt, event, wResult, initialAttempts,
                    webhookUrl, httpCalls, lastRequest, lastHttp, any2xx, sleeps >>

\* webhook.ts:50-74: an execution of deliverWebhook returns its result to
\* the workflow, which returns it, returns the exhausted result, or sleeps.
DeliverWebhook ==
    /\ wpc = "deliver"
    /\ \E h \in FetchOutcomes(webhookUrl), db \in {"ok", "tryUpdateFails"} :
        LET r == DeliveryResult(event, h, db) IN
        /\ db = "tryUpdateFails" => IsResponse(h)
        /\ event' = EventAfter(event, h, db)
        /\ httpCalls' = httpCalls + 1
        \* webhookSecret: secret || undefined, webhook.ts:53
        /\ lastRequest' = Request(webhookUrl, IF secret \in {NULL, ""} THEN NULL ELSE secret,
                                  DateNow(httpCalls))
        /\ lastHttp' = h
        /\ any2xx' = (any2xx \/ ok(h))
        /\ dbFaults' = (dbFaults \/ db # "ok")
        /\ watt' = 1
        /\ IF r.success
           THEN wResult' = r /\ wpc' = "done" /\ UNCHANGED sleeps
           ELSE IF attempt >= MAX_ATTEMPTS
           THEN wResult' = ExhaustedResult(attempt, r) /\ wpc' = "done"
                /\ UNCHANGED sleeps
           ELSE wpc' = "sleep" /\ sleeps' = Append(sleeps, WorkflowDelay(attempt))
                /\ UNCHANGED wResult
    /\ UNCHANGED << pvars, evars, secret, attempt, initialAttempts, webhookUrl >>

\* An execution of deliverWebhook fails: its SELECT throws before the
\* request, or the request is made and every UPDATE throws, or it runs to
\* its end and is then reported failed.
DeliverWebhookFails ==
    /\ wpc = "deliver"
    /\ \E h \in FetchOutcomes(webhookUrl),
          db \in {"selectFails", "updateFails", "resultLost"} :
        /\ event' = EventAfter(event, h, db)
        /\ httpCalls' = IF db = "selectFails" THEN httpCalls ELSE httpCalls + 1
        /\ lastRequest' = IF db = "selectFails" THEN lastRequest
                          ELSE Request(webhookUrl,
                                       IF secret \in {NULL, ""} THEN NULL ELSE secret,
                                       DateNow(httpCalls))
        /\ lastHttp' = IF db = "selectFails" THEN lastHttp ELSE h
        /\ any2xx' = (any2xx \/ (db # "selectFails" /\ ok(h)))
    /\ ActivityFails
    /\ UNCHANGED << pvars, evars, secret, attempt, wResult, initialAttempts, webhookUrl,
                    sleeps >>

\* webhook.ts:74, 47-48: the sleep ends and the loop goes round.
SleepEnds ==
    /\ wpc = "sleep"
    /\ attempt < MAX_ATTEMPTS
    /\ attempt' = attempt + 1
    /\ wpc' = "deliver"
    /\ UNCHANGED << pvars, evars, watt, secret, event, wResult, initialAttempts,
                    webhookUrl, httpCalls, lastRequest, lastHttp, any2xx, dbFaults, sleeps >>

WNext ==
    \/ GetMerchantWebhookUrl
    \/ GetMerchantWebhookUrlFails
    \/ DeliverWebhook
    \/ DeliverWebhookFails
    \/ SleepEnds

WSpec == WInit /\ [][WNext]_vars

\* The runtime keeps executing the activity in flight and ends every sleep.
WFairSpec == WSpec /\ WF_vars(WNext)

(***************************************************************************)
(*          deliverWebhook invoked by more than one worker at a time       *)
(*                                                                         *)
(* Nothing orders two invocations for one webhookEventId: a second run for *)
(* the same event, or the retry of an execution that timed out and is      *)
(* still running.  An invocation is three steps, divided at its awaits:    *)
(* the SELECT, fetch, the UPDATE.  No statement fails here.                *)
(***************************************************************************)

\* Bound of the model: the invocations started in one behaviour.
MaxEngineInvocations == 3

InFlight == {i \in Invocations : inv[i].at # "idle"}

EngineInit ==
    /\ PaymentInit
    /\ wpc = "idle"
    /\ watt = 1
    /\ secret = NULL
    /\ attempt = 0
    /\ initialAttempts \in 0..MaxInitialAttempts
    /\ event = [status |-> "pending", attempts |-> initialAttempts,
                deliveredAt |-> None,
                nextRetryAt |-> IF initialAttempts = 0 THEN None
                                ELSE Some(delay(initialAttempts))]
    /\ wResult = NoResult
    /\ webhookUrl = "https://merchant.example/hook"
    /\ httpCalls = 0
    /\ lastRequest = NoRequest
    /\ lastHttp = NoHttp
    /\ any2xx = FALSE
    /\ dbFaults = FALSE
    /\ sleeps = << >>
    /\ EngineIdle

\* functions/index.ts:189-190: the invocation reads the count and adds one.
SelectEvent(i) ==
    /\ inv[i].at = "idle"
    /\ nCompleted + Cardinality(InFlight) < MaxEngineInvocations
    /\ inv' = [inv EXCEPT ![i] = [at |-> "selected", attempts |-> event.attempts + 1,
                                  h |-> NoHttp]]
    /\ overlapped' = (overlapped \/ InFlight # {})
    /\ UNCHANGED << pvars, wvars, nCompleted >>

\* functions/index.ts:207-214: the request is made.
Fetch(i) ==
    /\ inv[i].at = "selected"
    /\ \E h \in FetchOutcomes(webhookUrl) :
        /\ inv' = [inv EXCEPT ![i].at = "fetched", ![i].h = h]
        /\ lastHttp' = h
        /\ any2xx' = (any2xx \/ ok(h))
    /\ httpCalls' = httpCalls + 1
    /\ lastRequest' = Request(webhookUrl, NULL, DateNow(httpCalls))
    /\ UNCHANGED << pvars, wpc, watt, secret, attempt, event, wResult, initialAttempts,
                    webhookUrl, dbFaults, sleeps, nCompleted, overlapped >>

\* functions/index.ts:219-236 or 243-253: the row is written with the count
\* the invocation computed, and the invocation returns.
UpdateEvent(i) ==
    /\ inv[i].at = "fetched"
    /\ event' = IF IsResponse(inv[i].h)
                THEN TryUpdate(event, inv[i].h, inv[i].attempts)
                ELSE CatchUpdate(event, inv[i].attempts)
    /\ inv' = [inv EXCEPT ![i] = [at |-> "idle", attempts |-> 0, h |-> NoHttp]]
    /\ nCompleted' = nCompleted + 1
    /\ UNCHANGED << pvars, wpc, watt, secret, attempt, wResult, initialAttempts,
                    webhookUrl, httpCalls, lastRequest, lastHttp, any2xx, dbFaults,
                    sleeps, overlapped >>

EngineNext ==
    \E i \in Invocations :
        \/ SelectEvent(i)
        \/ Fetch(i)
        \/ UpdateEvent(i)

EngineSpec == EngineInit /\ [][EngineNext]_vars

(***************************************************************************)
(*        The two backoff computations, applied to any attempt index       *)
(***************************************************************************)

\* Bound of the model: the largest attempt index the computations are
\* applied to.
MaxIndex == 8

\* The workflow's local attempt counter and the count on the record hold
\* any index; no delay was selected or persisted yet.
BackoffInit ==
    /\ PaymentInit
    /\ EngineIdle
    /\ wpc = "backoff"
    /\ watt = 1
    /\ secret = NULL
    /\ attempt \in 1..MaxIndex
    /\ \E n \in 1..MaxIndex :
        event = [status |-> "pending", attempts |-> n, deliveredAt |-> None,
                 nextRetryAt |-> None]
    /\ wResult = NoResult
    /\ initialAttempts = 0
    /\ webhookUrl = NULL
    /\ httpCalls = 0
    /\ lastRequest = NoRequest
    /\ lastHttp = NoHttp
    /\ any2xx = FALSE
    /\ dbFaults = FALSE
    /\ sleeps = << >>

\* webhook.ts:73-74: the workflow selects the delay for its attempt counter.
SelectDelay ==
    /\ wpc = "backoff"
    /\ sleeps = << >>
    /\ sleeps' = << WorkflowDelay(attempt) >>
    /\ UNCHANGED << pvars, evars, wpc, watt, secret, attempt, event, wResult,
                    initialAttempts, webhookUrl, httpCalls, lastRequest, lastHttp,
                    any2xx, dbFaults >>

\* functions/index.ts:215-217, 226: the engine computes the delay for the
\* count it writes and persists the retry time.
ScheduleRetry ==
    /\ wpc = "backoff"
    /\ event.nextRetryAt = None
    /\ event' = [event EXCEPT !.nextRetryAt = Some(delay(event.attempts))]
    /\ UNCHANGED << pvars, evars, wpc, watt, secret, attempt, wResult, initialAttempts,
                    webhookUrl, httpCalls, lastRequest, lastHttp, any2xx, dbFaults,
                    sleeps >>

BackoffNext ==
    \/ SelectDelay
    \/ ScheduleRetry

BackoffSpec == BackoffInit /\ [][BackoffNext]_vars

(***************************************************************************)
(*                              Properties                                 *)
(***************************************************************************)
Last(seq) == seq[Len(seq)]

\* The run went through the requires_action branch (payment.ts:91).
RequiresAction == result # NoResult /\ result.status = "requires_action"

\* Cancellation signals handled before the wait resolved.
CancelsBeforeResolve == nSignals - lateSignals - Len(completions)

\* How many updateOrderStatus calls the workflow made at a call site.
CallsAt(site) == Cardinality({i \in 1..Len(calls) : calls[i].site = site})

TerminalStatuses == {"captured", "failed", "cancelled"}

(***************************************************************************)
(* C1.  A run whose gateway outcome is requires_action ends Captured, or   *)
(* Failed with errorCode cancelled or timeout, or with the failure of a    *)
(* completion signal: no other terminal reason is reachable.               *)
(* Violated: a failed updateOrderStatus call in that branch is caught at   *)
(* payment.ts:133 and the run returns workflow_error.                      *)
(***************************************************************************)
C1_OnlyListedReasons ==
    (pc = "done" /\ RequiresAction) =>
        \/ returned.success /\ returned.status = "captured"
        \/ returned.status = "failed" /\ returned.errorCode \in {"cancelled", "timeout"}
        \/ /\ finalResult # NoResult
           /\ ~finalResult.success
           /\ returned = finalResult

(***************************************************************************)
(* C2.  When several completion signals are handled before the run reads   *)
(* the signal result, the returned result and the persisted status and     *)
(* transaction reference are those of the first one.                       *)
(* Violated: the handler overwrites paymentResult, so the last one wins.   *)
(***************************************************************************)
C2_FirstSignalApplied ==
    (pc = "done" /\ retSite = "signalWrite") =>
        /\ returned = SignalResult(completions[1])
        /\ Last(calls).status = SignalResult(completions[1]).status
        /\ Last(calls).processorTransactionId = completions[1].processorTransactionId

(***************************************************************************)
(* C3.  If a cancellation signal was handled by the time the wait          *)
(* resolves, the run returns {success: false, status: failed, errorCode:   *)
(* cancelled} and the order's persisted status is cancelled, whatever      *)
(* completion signals were handled.                                        *)
(* Violated only when the updateOrderStatus call of the cancelled branch   *)
(* fails (the defect of C7): the run then returns workflow_error.          *)
(***************************************************************************)
C3_CancellationWins ==
    (pc = "done" /\ resolvedBy # NULL /\ CancelsBeforeResolve > 0) =>
        /\ returned.success = FALSE
        /\ returned.status = "failed"
        /\ returned.errorCode = "cancelled"
        /\ order.status = "cancelled"

\* C3 restricted to the runs whose cancelled write is acknowledged.
C3_WhenWriteAcknowledged ==
    (pc = "done" /\ resolvedBy # NULL /\ CancelsBeforeResolve > 0
        /\ retSite # "catchWrite") =>
        /\ returned.success = FALSE
        /\ returned.status = "failed"
        /\ returned.errorCode = "cancelled"
        /\ order.status = "cancelled"

(***************************************************************************)
(* C4.  Once the wait has resolved by timeout or by cancellation, the      *)
(* result the run returns and the order status it leaves are decided by    *)
(* that resolution and by whether the branch's updateOrderStatus call      *)
(* went through; signals handled afterwards change neither.                *)
(***************************************************************************)
C4_LateSignalNoEffect ==
    (pc = "done" /\ resolvedBy \in {"timeoutWrite", "cancelWrite"}) =>
        /\ returned.success = FALSE
        /\ returned.status = "failed"
        /\ returned.processorTransactionId = NULL
        /\ returned.errorCode =
              IF retSite = "catchWrite" THEN "workflow_error"
              ELSE IF resolvedBy = "timeoutWrite" THEN "timeout" ELSE "cancelled"
        /\ order.status =
              IF retSite # "catchWrite" /\ resolvedBy = "cancelWrite"
              THEN "cancelled" ELSE "failed"
        /\ transactions = << >>

\* A successful completion signal was handled after the wait resolved by
\* timeout, while the timeout branch's write was in flight, and the run returned.
C4_Witness ==
    /\ pc = "done"
    /\ resolvedBy = "timeoutWrite"
    /\ retSite = "timeoutWrite"
    /\ lateSignals > 0
    /\ paymentCompleted
    /\ paymentResult.status = "captured"

(***************************************************************************)
(* C5.  The processPayment activity is executed at most once in a run, and *)
(* exactly once when it has produced the gateway outcome.                  *)
(* Violated: the stripe proxy's retry policy (maximumAttempts: 5) re-runs  *)
(* an attempt that threw.                                                  *)
(***************************************************************************)
C5_GatewayExecutedOnce ==
    /\ gatewayExecs <= 1
    /\ (result # NoResult => gatewayExecs = 1)

(***************************************************************************)
(* C6.  Every run returns a result value; it never ends in an unhandled    *)
(* fault.                                                                  *)
(* Violated: the updateOrderStatus call inside the catch block             *)
(* (payment.ts:135) is not guarded, so its failure leaves the function.    *)
(***************************************************************************)
C6_AlwaysReturnsResult ==
    pc # "faulted"

(***************************************************************************)
(* C7.  The returned result reflects the payment outcome that was reached  *)
(* (the gateway's outcome, the completion signal's, cancelled or timeout)  *)
(* also when the updateOrderStatus call of the terminal transition failed. *)
(* Violated: the failure is caught and the outcome replaced by             *)
(* workflow_error.                                                         *)
(***************************************************************************)
C7_OutcomeSurvivesWriteFailure ==
    pc = "done" =>
        /\ (result # NoResult /\ result.status # "requires_action") => returned = result
        /\ resolvedBy = "signalWrite" => returned = finalResult
        /\ resolvedBy = "cancelWrite" => returned.errorCode = "cancelled"
        /\ resolvedBy = "timeoutWrite" => returned.errorCode = "timeout"

(***************************************************************************)
(* C8.  The transition that ends the run makes exactly one updateOrderStatus*)
(* call and that call is the last thing the run does; in the catch block   *)
(* the call has status failed.                                             *)
(***************************************************************************)
C8_OneTerminalWrite ==
    /\ pc = "done" =>
          /\ Len(calls) >= 1
          /\ Last(calls).site = retSite
          /\ Last(calls).ok
          /\ CallsAt(retSite) = 1
          /\ {i \in 1..Len(calls) : calls[i].ok /\ calls[i].site # "raWrite"} = {Len(calls)}
          /\ \A i \in 1..Len(calls) :
                ~calls[i].ok => (retSite = "catchWrite" /\ i = Len(calls) - 1)
          /\ retSite = "catchWrite" => Last(calls).status = "failed"
          /\ retSite = "noConfigWrite" => Last(calls).status = "failed"
          /\ retSite = "timeoutWrite" => Last(calls).status = "failed"
          /\ retSite = "cancelWrite" => Last(calls).status = "cancelled"
          /\ retSite \in {"signalWrite", "resultWrite"} => Last(calls).status = returned.status
    /\ pc = "faulted" =>
          /\ Last(calls).site = "catchWrite"
          /\ Last(calls).status = "failed"
          /\ CallsAt("catchWrite") = 1

\* The run returned workflow_error after the write of a terminal branch failed.
C8_Witness ==
    /\ pc = "done"
    /\ retSite = "catchWrite"
    /\ Len(calls) = 3
    /\ calls[2].site = "cancelWrite"

(***************************************************************************)
(* C9.  Once the order has a terminal status (captured, failed or          *)
(* cancelled), no later step of the run gives it a different status.       *)
(* Violated: an updateOrderStatus call that fails after its UPDATE was     *)
(* applied sends the run to the catch block, which writes failed.          *)
(***************************************************************************)
C9_TerminalStatusNeverChanges ==
    [][order.status \in TerminalStatuses => order'.status = order.status]_vars

(***************************************************************************)
(* C10.  If no signal was handled before the timeout fired, the run        *)
(* returns {success: false, status: failed, errorCode: timeout} and the    *)
(* order's persisted status is failed.                                     *)
(* Violated only when the updateOrderStatus call of the timeout branch     *)
(* fails (the defect of C7): the run then returns workflow_error.          *)
(***************************************************************************)
C10_TimeoutResult ==
    (pc = "done" /\ resolvedBy # NULL /\ nSignals - lateSignals = 0) =>
        /\ returned.success = FALSE
        /\ returned.status = "failed"
        /\ returned.errorCode = "timeout"
        /\ order.status = "failed"

\* C10 restricted to the runs whose timeout write is acknowledged.
C10_WhenWriteAcknowledged ==
    (pc = "done" /\ resolvedBy # NULL /\ nSignals - lateSignals = 0
        /\ retSite # "catchWrite") =>
        /\ returned.success = FALSE
        /\ returned.status = "failed"
        /\ returned.errorCode = "timeout"
        /\ order.status = "failed"

(***************************************************************************)
(* C11.  In a requires_action run where a completion signal and no         *)
(* cancellation was observed, the run returns Captured when the signal's   *)
(* success flag is true and Failed when it is false, and the terminal      *)
(* updateOrderStatus call carries that status and the signal's processor   *)
(* transaction reference.  The signal meant is the one the wait observed.  *)
(* Violated only when the updateOrderStatus call of the completion branch  *)
(* fails (the defect of C7): the run then returns workflow_error.          *)
(***************************************************************************)
C11_SignalMapsToResult ==
    (pc = "done" /\ resolvedBy # NULL /\ Len(completions) > 0
        /\ CancelsBeforeResolve = 0) =>
        /\ returned.success = Last(completions).success
        /\ returned.status = IF Last(completions).success THEN "captured" ELSE "failed"
        /\ Last(calls).status = IF Last(completions).success THEN "captured" ELSE "failed"
        /\ Last(calls).processorTransactionId = Last(completions).processorTransactionId

\* C11 restricted to the runs whose completion write is acknowledged.
C11_WhenWriteAcknowledged ==
    (pc = "done" /\ resolvedBy # NULL /\ Len(completions) > 0
        /\ CancelsBeforeResolve = 0 /\ retSite # "catchWrite") =>
        /\ returned.success = Last(completions).success
        /\ returned.status = IF Last(completions).success THEN "captured" ELSE "failed"
        /\ Last(calls).status = IF Last(completions).success THEN "captured" ELSE "failed"
        /\ Last(calls).processorTransactionId = Last(completions).processorTransactionId

(***************************************************************************)
(* C12.  A run that entered the wait leaves it and ends with a terminal    *)
(* result, decided by exactly one of completion, cancellation and timeout. *)
(* Violated: after the wait a failed write leads to the catch block, whose *)
(* own write can fail (the defect of C6), and the run ends in a fault.     *)
(***************************************************************************)
C12_WaitEndsInResult ==
    resolvedBy # NULL => pc # "faulted"

\* The branches after the wait are exclusive and exhaustive for every
\* combination of the flags and of condition()'s value; the handler sets
\* paymentResult together with paymentCompleted.
C12_BranchesExclusive ==
    \A c \in BOOLEAN, x \in BOOLEAN, p \in BOOLEAN, sig \in CompletionSignals :
        LET b == WaitBranch(c, x, p, IF p THEN SignalResult(sig) ELSE NoResult) IN
        /\ b \in {"cancelWrite", "timeoutWrite", "signalWrite"}
        /\ b = "cancelWrite" <=> x
        /\ b = "timeoutWrite" <=> (~x /\ (~c \/ ~p))
        /\ b = "signalWrite" <=> (~x /\ c /\ p)

\* The timer of condition() fires and a resolved condition() resumes the
\* workflow (payment.ts:100).
FairSpec ==
    Spec /\ WF_vars(TimeoutFires) /\ WF_vars(ConditionResolves)

\* Under FairSpec the wait is always left.
C12_LeavesWait ==
    (pc = "wait") ~> (pc # "wait")

(***************************************************************************)
(* C13.  When getProcessorConfig returns null the run fails at once with   *)
(* errorCode no_processor_config: the gateway is never called, no wait is  *)
(* entered and exactly one updateOrderStatus call, with status failed, is  *)
(* made.                                                                   *)
(* Violated only when that call fails (the defect of C7): the catch block  *)
(* makes a second call and the run returns workflow_error.                 *)
(***************************************************************************)
C13_NoConfigFailsImmediately ==
    (~Running /\ CallsAt("noConfigWrite") > 0) =>
        /\ pc = "done"
        /\ returned.success = FALSE
        /\ returned.status = "failed"
        /\ returned.errorCode = "no_processor_config"
        /\ gatewayExecs = 0
        /\ resolvedBy = NULL
        /\ Len(calls) = 1
        /\ calls[1].status = "failed"

\* C13 restricted to the runs whose write is acknowledged.
C13_WhenWriteAcknowledged ==
    (~Running /\ CallsAt("noConfigWrite") > 0 /\ calls[1].ok) =>
        /\ pc = "done"
        /\ returned.success = FALSE
        /\ returned.status = "failed"
        /\ returned.errorCode = "no_processor_config"
        /\ gatewayExecs = 0
        /\ resolvedBy = NULL
        /\ Len(calls) = 1
        /\ calls[1].status = "failed"

(***************************************************************************)
(* C14.  When the gateway outcome's status is captured, pending or failed  *)
(* the run enters no wait, makes exactly one updateOrderStatus call with   *)
(* that status and the outcome's processor references, and returns the     *)
(* outcome unchanged.                                                      *)
(* Violated only when that call fails (the defect of C7).                  *)
(***************************************************************************)
C14_DirectOutcomePersisted ==
    (~Running /\ result # NoResult
        /\ result.status \in {"captured", "pending", "failed"}) =>
        /\ pc = "done"
        /\ resolvedBy = NULL
        /\ Len(calls) = 1
        /\ calls[1].status = result.status
        /\ calls[1].processorOrderId = result.processorOrderId
        /\ calls[1].processorTransactionId = result.processorTransactionId
        /\ returned = result

\* C14 restricted to the runs whose write is acknowledged.
C14_WhenWriteAcknowledged ==
    (~Running /\ result # NoResult
        /\ result.status \in {"captured", "pending", "failed"}
        /\ calls[1].ok) =>
        /\ pc = "done"
        /\ resolvedBy = NULL
        /\ Len(calls) = 1
        /\ calls[1].status = result.status
        /\ calls[1].processorOrderId = result.processorOrderId
        /\ calls[1].processorTransactionId = result.processorTransactionId
        /\ returned = result

\* The await of stripe.processPayment threw: every attempt the retry policy
\* allows ended in an error that createPayment rethrew.
GatewayRaised ==
    result = NoResult /\ gatewayExecs > 0 /\ pc # "processPayment"

(***************************************************************************)
(* C15.  When the gateway call raises, the run ends Failed with errorCode  *)
(* workflow_error, after an updateOrderStatus call with status failed.     *)
(* Violated only when the catch block's write fails (the defect of C6):    *)
(* the run ends in a fault instead.                                        *)
(***************************************************************************)
C15_GatewayErrorIsWorkflowError ==
    (~Running /\ GatewayRaised) =>
        /\ pc = "done"
        /\ returned.success = FALSE
        /\ returned.status = "failed"
        /\ returned.errorCode = "workflow_error"
        /\ Last(calls).status = "failed"
        /\ Last(calls).ok

\* C15 for the runs that return.
C15_WhenRunReturns ==
    (pc = "done" /\ GatewayRaised) =>
        /\ returned.success = FALSE
        /\ returned.status = "failed"
        /\ returned.errorCode = "workflow_error"
        /\ Len(calls) = 1
        /\ Last(calls).status = "failed"
        /\ Last(calls).ok

(***************************************************************************)
(* C16.  The signals handled before the wait resolves, those handled       *)
(* before the workflow reached the wait included, decide how it resolves:  *)
(* a cancellation gives the cancelled branch, otherwise a completion gives *)
(* the completion branch with the result of the latest completion signal,  *)
(* and the timeout branch is taken only when there was no signal.  The     *)
(* branch's write is made once.                                            *)
(***************************************************************************)
C16_EarlySignalApplied ==
    resolvedBy # NULL =>
        /\ resolvedBy = IF CancelsBeforeResolve > 0 THEN "cancelWrite"
                        ELSE IF Len(completions) > 0 THEN "signalWrite"
                        ELSE "timeoutWrite"
        /\ earlySignal => (completed /\ resolvedBy # "timeoutWrite")
        /\ resolvedBy = "signalWrite" => finalResult = SignalResult(Last(completions))
        /\ CallsAt(resolvedBy) <= 1
        /\ Len(transactions) <= 1

\* The only signal of the run was a completion handled before the workflow
\* reached the wait, and the run returned from the completion branch.
C16_Witness ==
    /\ pc = "done"
    /\ retSite = "signalWrite"
    /\ earlySignal
    /\ nSignals = 1
    /\ returned = SignalResult(completions[1])

(***************************************************************************)
(* C17.  In every result the run holds or returns, status is captured only *)
(* if success is true.                                                     *)
(***************************************************************************)
C17_CapturedOnlyIfSuccess ==
    \A r \in {returned, result, paymentResult, finalResult} :
        (r # NoResult /\ r.status = "captured") => r.success = TRUE

\* The run returned a captured result that came from a completion signal.
C17_Witness ==
    /\ pc = "done"
    /\ retSite = "signalWrite"
    /\ returned.status = "captured"

\* The run made no wait: the gateway outcome was not requires_action, or
\* there was no configuration.
NoWaitRun ==
    \/ result # NoResult /\ result.status # "requires_action"
    \/ CallsAt("noConfigWrite") > 0

(***************************************************************************)
(* C31.  A completion or cancellation signal received by a run whose       *)
(* gateway outcome is not requires_action, or whose configuration is       *)
(* missing, has no effect: the run returns and persists the gateway        *)
(* outcome, also when a cancellation was received before the gateway call  *)
(* returned.                                                               *)
(* Violated only when the one persistence call fails (the defect of C7):   *)
(* the run then persists failed and returns workflow_error, with or        *)
(* without signals.                                                        *)
(***************************************************************************)
C31_SignalWithoutWaitIgnored ==
    (~Running /\ NoWaitRun /\ nSignals > 0) =>
        /\ pc = "done"
        /\ resolvedBy = NULL
        /\ Len(calls) = 1
        /\ returned = IF result # NoResult THEN result
                      ELSE PaymentResult(FALSE, "failed", NULL, NULL, "no_processor_config")
        /\ calls[1].status = returned.status
        /\ order.status = returned.status

\* C31 restricted to the runs whose write is acknowledged.
C31_WhenWriteAcknowledged ==
    (~Running /\ NoWaitRun /\ nSignals > 0 /\ calls[1].ok) =>
        /\ pc = "done"
        /\ resolvedBy = NULL
        /\ Len(calls) = 1
        /\ returned = IF result # NoResult THEN result
                      ELSE PaymentResult(FALSE, "failed", NULL, NULL, "no_processor_config")
        /\ calls[1].status = returned.status
        /\ order.status = returned.status

\* In a run without a wait the flags the signals set are never read: the
\* wait is not resolved and nothing but the gateway outcome, the missing
\* configuration or workflow_error is returned.
C31_FlagsNeverRead ==
    (NoWaitRun /\ pc \in {"done", "faulted"}) =>
        /\ resolvedBy = NULL
        /\ completed = FALSE
        /\ finalResult = NoResult
        /\ pc = "done" => returned.errorCode \notin {"cancelled", "timeout"}
        /\ \A i \in 1..Len(calls) : calls[i].status # "cancelled"

(***************************************************************************)
(* C32.  When a run returns and none of its updateOrderStatus calls        *)
(* failed, the status of its last call is the status of the returned       *)
(* result, except on the cancellation path, where cancelled is persisted   *)
(* and failed is returned; and requires_action is written at most once and *)
(* only before the terminal write.                                         *)
(***************************************************************************)
C32_PersistedMatchesReturned ==
    (pc = "done" /\ \A i \in 1..Len(calls) : calls[i].ok) =>
        /\ retSite # "cancelWrite" => Last(calls).status = returned.status
        /\ retSite = "cancelWrite" =>
            (Last(calls).status = "cancelled" /\ returned.status = "failed")
        /\ order.status = Last(calls).status
        /\ Cardinality({i \in 1..Len(calls) : calls[i].status = "requires_action"}) <= 1
        /\ \A i \in 1..Len(calls) :
            calls[i].status = "requires_action" => (i = 1 /\ Len(calls) = 2)

\* The run wrote requires_action, was cancelled and returned, with every
\* call acknowledged.
C32_Witness ==
    /\ pc = "done"
    /\ retSite = "cancelWrite"
    /\ Len(calls) = 2
    /\ calls[1].status = "requires_action" /\ calls[1].ok
    /\ calls[2].status = "cancelled" /\ calls[2].ok
    /\ returned.status = "failed"

(***************************************************************************)
(* C33.  An updateOrderStatus call without a processorOrderId (the         *)
(* cancelled, timeout, no-config and workflow-error writes) leaves the     *)
(* order's processorOrderId as it was, so the reference stored by the      *)
(* requires_action write survives a later cancellation or timeout; and a   *)
(* transaction row is inserted only by a call that carries a               *)
(* processorTransactionId.                                                 *)
(***************************************************************************)
C33_ReferenceSurvives ==
    [][/\ pc \in {"cancelWrite", "timeoutWrite", "noConfigWrite", "catchWrite"} =>
            order'.processorOrderId = order.processorOrderId
       /\ (order.processorOrderId = "pi_1" /\ pc \in {"cancelWrite", "timeoutWrite"}) =>
            order'.processorOrderId = "pi_1"
       /\ transactions' # transactions =>
            /\ Len(transactions') = Len(transactions) + 1
            /\ calls' # calls
            /\ Last(calls').processorTransactionId # NULL
            /\ Last(transactions').processorTransactionId
                   = Last(calls').processorTransactionId]_vars

\* The requires_action write stored the reference, the run was cancelled,
\* and the cancelled order still carries it.
C33_Witness ==
    /\ pc = "done"
    /\ retSite = "cancelWrite"
    /\ order.status = "cancelled"
    /\ order.processorOrderId = "pi_1"

\* The reference of the requires_action write is on the order from then on.
C33_ReferenceKept ==
    (\E i \in 1..Len(calls) : calls[i].site = "raWrite" /\ calls[i].ok) =>
        order.processorOrderId = "pi_1"

\* As many transaction rows as acknowledged calls with a processorTransactionId.
C33_TransactionsCounted ==
    Len(transactions) =
        Cardinality({i \in 1..Len(calls) :
                        calls[i].ok /\ calls[i].processorTransactionId # NULL})

(***************************************************************************)
(*        Properties of WebhookDeliveryWorkflow, checked under WSpec       *)
(***************************************************************************)

(***************************************************************************)
(* C18.  The persisted attempt count of the webhook event record never     *)
(* decreases and never exceeds 5, also when executions of the activity are *)
(* repeated by the retry policy and when the run starts on a record whose  *)
(* count is above 0.                                                       *)
(* Violated: every execution writes the count it read plus one, whatever   *)
(* the count is.                                                           *)
(***************************************************************************)
C18_AttemptsBounded ==
    event.attempts <= MAX_ATTEMPTS

\* The count never decreases.
C18_AttemptsMonotone ==
    [][event'.attempts >= event.attempts]_vars

\* On a fresh record, with no failed execution, the count is the workflow's
\* attempt counter or one less, and so at most 5.
C18_BoundedWithoutRepeats ==
    (initialAttempts = 0 /\ ~dbFaults) =>
        /\ event.attempts <= MAX_ATTEMPTS
        /\ event.attempts \in {attempt - 1, attempt}

(***************************************************************************)
(* C19.  nextRetryAt is set if and only if status is pending: a delivered  *)
(* or failed record carries no retry time, also when an earlier failed     *)
(* attempt had set one, and a pending record that has been attempted       *)
(* carries one.                                                            *)
(* Violated: the updates that write delivered or failed pass undefined for *)
(* nextRetryAt, which leaves the column as the earlier attempt wrote it.   *)
(***************************************************************************)
C19_RetryTimeIffPending ==
    /\ event.status \in {"delivered", "failed"} => event.nextRetryAt = None
    /\ (event.status = "pending" /\ event.attempts > 0) => event.nextRetryAt # None

\* The half of C19 about pending records.
C19_PendingHasRetryTime ==
    (event.status = "pending" /\ event.attempts > 0) => event.nextRetryAt # None

\* No database statement and no activity execution failed, on a fresh record.
CleanRun == initialAttempts = 0 /\ ~dbFaults

\* The errorMessage of an execution whose request ended as h.
MessageOf(h) == IF IsResponse(h) THEN HttpMessage(h.status) ELSE h.message

(***************************************************************************)
(* C20.  When the destination fails all 5 attempts of a run, by non-2xx    *)
(* responses or by transport errors, the run returns success false and     *)
(* attempts 5 with the last attempt's error message, or "Max attempts      *)
(* reached" if it has none, and the persisted status of the record is      *)
(* failed.  Stated for the runs on a fresh record in which no database     *)
(* statement fails.                                                        *)
(* Violated: an attempt that ends in a non-2xx response writes pending     *)
(* whatever the attempt count.                                             *)
(***************************************************************************)
C20_ExhaustedRunIsFailed ==
    (wpc = "done" /\ CleanRun /\ ~any2xx) =>
        /\ wResult.success = FALSE
        /\ wResult.attempts = 5
        /\ wResult.errorMessage = IF Falsy(MessageOf(lastHttp))
                                  THEN "Max attempts reached"
                                  ELSE MessageOf(lastHttp)
        /\ event.status = "failed"

\* The part of C20 about the returned value, and the persisted status when
\* the last attempt ended in a transport error.
C20_ExhaustedResult ==
    (wpc = "done" /\ CleanRun /\ ~any2xx) =>
        /\ httpCalls = 5
        /\ wResult.success = FALSE
        /\ wResult.attempts = 5
        /\ wResult.errorMessage = IF Falsy(MessageOf(lastHttp))
                                  THEN "Max attempts reached"
                                  ELSE MessageOf(lastHttp)
        /\ event.status = IF IsResponse(lastHttp) THEN "pending" ELSE "failed"

(***************************************************************************)
(* C21.  When the first successful delivery attempt of a run is attempt k, *)
(* the run returns the engine's result at once, with success true,         *)
(* attempts k and deliveredAt set; no further attempt and no further sleep *)
(* follows, and the record is delivered with no retry scheduled.  Stated   *)
(* for the runs on a fresh record in which no database statement fails.    *)
(* Violated for k >= 2: the retry time written by the failed attempts      *)
(* stays on the delivered record (the defect of C19).                      *)
(***************************************************************************)
C21_FirstSuccessReturns ==
    (wpc = "done" /\ CleanRun /\ wResult.success) =>
        /\ wResult.attempts = attempt
        /\ wResult.deliveredAt # None
        /\ httpCalls = attempt
        /\ Len(sleeps) = attempt - 1
        /\ event.status = "delivered"
        /\ event.nextRetryAt = None

\* C21 without the retry time.
C21_ExceptRetryTime ==
    (wpc = "done" /\ CleanRun /\ wResult.success) =>
        /\ wResult = [success |-> TRUE, statusCode |-> Some(200), attempts |-> attempt,
                      deliveredAt |-> Some(0), errorMessage |-> NULL]
        /\ httpCalls = attempt
        /\ Len(sleeps) = attempt - 1
        /\ event.status = "delivered"
        /\ event.deliveredAt # None
        /\ event.attempts = attempt

\* A run that returned takes no further step.
C21_NothingAfterReturn ==
    [][wpc # "done"]_vars

(***************************************************************************)
(* C22.  Every run terminates, and when it has terminated the persisted    *)
(* status of the record is delivered or failed, never pending.             *)
(* Violated: a run whose fifth attempt ends in a non-2xx response returns  *)
(* and leaves the record pending (the defect of C20).                      *)
(***************************************************************************)
C22_TerminalStatusPersisted ==
    wpc = "done" => event.status \in {"delivered", "failed"}

\* Under WFairSpec every run returns or fails.
C22_Terminates ==
    <>(wpc \in {"done", "faulted"})

(***************************************************************************)
(* C23.  The delay the engine adds to obtain the persisted nextRetryAt is  *)
(* the duration the workflow sleeps after that attempt.  Stated for the    *)
(* runs on a fresh record in which no database statement fails.            *)
(* Violated from attempt 2 on: the engine doubles 60000 and the workflow   *)
(* reads RETRY_DELAYS.                                                     *)
(***************************************************************************)
C23_RetryTimeMatchesSleep ==
    (wpc = "sleep" /\ CleanRun) => event.nextRetryAt = Some(Last(sleeps))

\* After the first attempt the two agree.
C23_FirstDelayAgrees ==
    (wpc = "sleep" /\ CleanRun /\ attempt = 1) =>
        /\ event.nextRetryAt = Some(60000)
        /\ Last(sleeps) = 60000

\* The step is one execution of deliverWebhook in which no database
\* statement failed and whose result reached the workflow.
EngineAttempt == httpCalls' = httpCalls + 1 /\ ~dbFaults'

(***************************************************************************)
(* C25.  One engine attempt that ends in a non-2xx response, a transport   *)
(* failure or the expiry of the 30-second deadline persists status pending *)
(* when the incremented count is below 5 and failed otherwise, and         *)
(* persists nextRetryAt = now + backoff(count) exactly when the count is   *)
(* below 5; the three kinds of failure are treated alike.                  *)
(* Violated: at a count of 5 or more a non-2xx response still persists     *)
(* pending and a retry time; only a rejected fetch persists failed.        *)
(***************************************************************************)
C25_FailedAttemptPersisted ==
    [][(EngineAttempt /\ ~ok(lastHttp')) =>
        /\ event'.attempts = event.attempts + 1
        /\ event'.status = IF event'.attempts < 5 THEN "pending" ELSE "failed"
        /\ event'.nextRetryAt = IF event'.attempts < 5
                                THEN Some(delay(event'.attempts))
                                ELSE event.nextRetryAt]_vars

\* C25 for a fetch that rejected (transport failure, deadline, URL).
C25_RejectedAttemptPersisted ==
    [][(EngineAttempt /\ ~IsResponse(lastHttp')) =>
        /\ event'.attempts = event.attempts + 1
        /\ event'.status = IF event'.attempts < 5 THEN "pending" ELSE "failed"
        /\ event'.nextRetryAt = IF event'.attempts < 5
                                THEN Some(delay(event'.attempts))
                                ELSE event.nextRetryAt]_vars

\* What a non-2xx response persists, whatever the count.
C25_Non2xxAttemptPersisted ==
    [][(EngineAttempt /\ IsResponse(lastHttp') /\ ~ok(lastHttp')) =>
        /\ event'.attempts = event.attempts + 1
        /\ event'.status = "pending"
        /\ event'.nextRetryAt = Some(delay(event'.attempts))]_vars

(***************************************************************************)
(* C26.  An engine attempt that receives a 2xx response persists status    *)
(* delivered, records the delivery time and clears a retry time scheduled  *)
(* by an earlier failed attempt: after it the record has no nextRetryAt.   *)
(* Violated: nextRetryAt: undefined leaves the column as it was (the       *)
(* defect of C19).                                                         *)
(***************************************************************************)
C26_SuccessClearsRetryTime ==
    [][(EngineAttempt /\ ok(lastHttp')) =>
        /\ event'.status = "delivered"
        /\ event'.deliveredAt # None
        /\ event'.nextRetryAt = None]_vars

\* What a 2xx response persists.
C26_SuccessPersisted ==
    [][(EngineAttempt /\ ok(lastHttp')) =>
        /\ event'.status = "delivered"
        /\ event'.deliveredAt # None
        /\ event'.attempts = event.attempts + 1
        /\ event'.nextRetryAt = event.nextRetryAt]_vars

(***************************************************************************)
(* C27.  In one run the HTTP delivery is performed at most 5 times, and an *)
(* attempt whose request and record write completed is never executed      *)
(* again, also when the execution fails or times out after them and is     *)
(* re-run by the activity retry policy.                                    *)
(* Violated: the retry policy re-runs the whole activity, which makes the  *)
(* request and the write again.                                            *)
(***************************************************************************)
C27_AtMostFiveDeliveries ==
    httpCalls <= 5

\* Without a failed execution fetch is called once per attempt; with them,
\* at most maximumAttempts times per attempt.
C27_DeliveriesPerAttempt ==
    /\ ~dbFaults => httpCalls \in {attempt - 1, attempt}
    /\ httpCalls <= 3 * attempt
    /\ attempt <= 5

(***************************************************************************)
(* C29.  The engine returns a result {success: false, attempts,            *)
(* errorMessage} for every ordinary HTTP failure and signals a fatal error *)
(* exactly when its input is structurally invalid, such as a URL that does *)
(* not parse: a run on such a URL counts no attempt and is not retried     *)
(* with backoff.                                                           *)
(* Violated: fetch rejects inside the try block, so the invalid URL is     *)
(* counted and retried like a transport failure; the engine raises only    *)
(* when a database statement fails.                                        *)
(***************************************************************************)
C29_InvalidUrlIsFatal ==
    ~ParsesAsUrl(webhookUrl) =>
        /\ wpc \notin {"sleep", "done"}
        /\ event.attempts = initialAttempts

\* An ordinary HTTP failure is returned as a result: the workflow goes on
\* to sleep or to return a failure.
C29_FailureIsAResult ==
    [][(EngineAttempt /\ ~ok(lastHttp')) =>
        /\ wpc' \in {"sleep", "done"}
        /\ wpc' = "done" => (~wResult'.success /\ wResult'.attempts = 5
                               /\ wResult'.errorMessage # NULL)]_vars

\* The values the latest request carries for a header.
HeaderValues(name) ==
    {p[2] : p \in {q \in lastRequest.headers : q[1] = name}}

(***************************************************************************)
(* C30.  A request carries a signature header if and only if a non-empty   *)
(* secret was resolved for the merchant; the signature is computed with    *)
(* that secret over "{timestamp}.{body}", where timestamp is the value of  *)
(* the timestamp header and body is the body sent; every request carries   *)
(* the event-id header and the timestamp header.                           *)
(***************************************************************************)
C30_SignedIffSecret ==
    httpCalls > 0 =>
        /\ HeaderValues("X-Loop-Event-Id") = {"evt_1"}
        /\ HeaderValues("X-Loop-Timestamp") = {ToString(999 + httpCalls)}
        /\ lastRequest.body = "{\"type\":\"payment.captured\"}"
        /\ HeaderValues("X-Loop-Signature") # {} <=> secret \notin {NULL, ""}
        /\ secret \notin {NULL, ""} =>
            \A t \in HeaderValues("X-Loop-Timestamp") :
                HeaderValues("X-Loop-Signature") =
                    {"v1=" \o Hmac(secret, t \o "." \o lastRequest.body)}

\* A signed request was made.
C30_Witness ==
    /\ httpCalls > 0
    /\ secret = "whsec"
    /\ HeaderValues("X-Loop-Signature") =
        {"v1=hmac-sha256(whsec,1000.{\"type\":\"payment.captured\"})"}

(***************************************************************************)
(*   Properties of concurrent engine invocations, checked under EngineSpec *)
(***************************************************************************)

(***************************************************************************)
(* C28.  Each engine attempt writes the record once and raises its count   *)
(* by exactly 1: after n completed attempts the persisted count is the     *)
(* initial count plus n, also when two invocations interleave between      *)
(* reading the count and writing it back.                                  *)
(* Violated: both invocations read the same count and write the same       *)
(* count plus one.                                                         *)
(***************************************************************************)
C28_CountIsInitialPlusCompleted ==
    event.attempts = initialAttempts + nCompleted

\* C28 when no invocation started while another was running.
C28_WithoutOverlap ==
    ~overlapped => event.attempts = initialAttempts + nCompleted

\* The count is never more than the completed attempts account for.
C28_NeverOvercounts ==
    event.attempts <= initialAttempts + nCompleted

(***************************************************************************)
(*     Properties of the backoff computations, checked under BackoffSpec   *)
(***************************************************************************)

(***************************************************************************)
(* C24.  The delay the workflow selects for the attempt indices 1 to 5 is  *)
(* 60000, 300000, 1800000, 7200000 and 86400000 ms, and for an index of 6  *)
(* or more it is 86400000 ms.                                              *)
(***************************************************************************)
C24_DelaySchedule ==
    (wpc = "backoff" /\ sleeps # << >>) =>
        sleeps = << CASE attempt = 1 -> 60000
                      [] attempt = 2 -> 300000
                      [] attempt = 3 -> 1800000
                      [] attempt = 4 -> 7200000
                      [] attempt >= 5 -> 86400000 >>

\* The delay was selected for an index beyond the table.
C24_Witness ==
    /\ wpc = "backoff"
    /\ attempt = 7
    /\ sleeps = << 86400000 >>

\* C23 for the computations alone: applied to the same index, the engine's
\* delay is the workflow's.  Violated from index 2 on.
C23_SameDelayForSameIndex ==
    (wpc = "backoff" /\ sleeps # << >> /\ event.nextRetryAt # None
        /\ attempt = event.attempts) =>
        event.nextRetryAt = Some(sleeps[1])

(***************************************************************************)
(*             C34, checked under WSpec                                    *)
(***************************************************************************)

(***************************************************************************)
(* C34.  At every iteration the workflow's local attempt counter is the    *)
(* attempts value the engine reports, the persisted count, so the attempts *)
(* field of the run's result is the persisted count of the record, whether *)
(* the run ends delivered or exhausted.                                    *)
(* Violated: the engine counts from what is on the record and counts every *)
(* execution, the workflow counts its own iterations from 0.               *)
(***************************************************************************)
C34_CounterIsPersistedCount ==
    wpc \in {"sleep", "done"} =>
        /\ attempt = event.attempts
        /\ wpc = "done" => wResult.attempts = event.attempts

\* C34 on a fresh record with no failed execution.
C34_OnCleanRun ==
    (wpc \in {"sleep", "done"} /\ CleanRun) =>
        /\ attempt = event.attempts
        /\ wpc = "done" => wResult.attempts = event.attempts

====
